---- MODULE Spec2Model ----
(***************************************************************************)
(* anifunnel: the scrobble resolution engine.                              *)
(*                                                                         *)
(* A Plex webhook is classified (plex.rs), resolved to an AniList watch    *)
(* list entry by title override or by fuzzy title matching                 *)
(* (anilist/data.rs, utils.rs, db.rs) and, when the episode is the next    *)
(* one, the entry's progress is advanced by one (main.rs, anilist.rs).     *)
(*                                                                         *)
(* A String is held by its text and chars gives its characters; a          *)
(* character is a name. Option<T> is a sequence of length 0 (None) or 1    *)
(* (Some). A call that panics or does not end has status "panic" or "hang".*)
(* f64 confidences are integers scaled by ScoreScale, which is a multiple  *)
(* of every title length of the model, so every score is exact.            *)
(***************************************************************************)
EXTENDS Integers, Sequences, FiniteSets, TLC

\* ------------------------------------------------------------------ bounds

\* Highest episode number a webhook of the model carries.
MaxEpisode == 2

\* Highest season number (parentIndex) a webhook of the model carries.
MaxSeason == 2
\* Longest watch list the title matcher is called with on its own.
MaxListLen == 3
\* The longest string remove_special_surrounding_characters is called with,
\* in characters.
MaxTrimLen == 3

\* --------------------------------------------------------------- Option<T>

None == <<>>
Some(x) == <<x>>
is_some(o) == o # <<>>
is_none(o) == o = <<>>
unwrap(o) == o[1]

\* ------------------------------------------------------------- characters

\* Characters of the model. U3010, U3011 are the brackets of "【推しの子】"
\* and U63A8 its first ideograph: three UTF-8 bytes each.
LowerLetters ==
    {"a", "c", "d", "e", "g", "h", "i", "l", "m", "n", "o", "p", "r", "s", "t",
     "u", "x", "y", "z"}
UpperLetters == {"R", "M"}
Digits == {"0", "1", "2", "3", "4"}
WideAlphanumerics == {"U63A8"}
WideSpecials == {"U3010", "U3011"}
Specials == {" ", "!", "(", ")"}

\* char::len_utf8
len_utf8(chr) == IF chr \in WideAlphanumerics \cup WideSpecials THEN 3 ELSE 1

\* char::is_alphanumeric
is_alphanumeric(chr) ==
    chr \in LowerLetters \cup UpperLetters \cup Digits \cup WideAlphanumerics

\* \d of the regex crate
is_digit(chr) == chr \in Digits

\* char::to_lowercase
char_to_lowercase(chr) ==
    CASE chr = "R" -> "r"
      [] chr = "M" -> "m"
      [] OTHER -> chr

\* String::to_lowercase
to_lowercase(s) == [k \in 1..Len(s) |-> char_to_lowercase(s[k])]

\* str::len, in bytes
RECURSIVE byte_len(_)
byte_len(s) == IF s = <<>> THEN 0 ELSE len_utf8(Head(s)) + byte_len(Tail(s))

\* str::char_indices: the byte position of every character
char_indices(s) == [k \in 1..Len(s) |-> <<byte_len(SubSeq(s, 1, k - 1)), s[k]>>]

\* str::is_char_boundary
is_char_boundary(s, index) ==
    \/ index = 0
    \/ index = byte_len(s)
    \/ /\ index < byte_len(s)
       /\ \E k \in 1..Len(s) : char_indices(s)[k][1] = index

\* --------------------------------------------------------------- utils.rs

\* The first loop of remove_special_surrounding_characters: start_pos is the
\* position of the first alphanumeric character or '(', else of the last
\* character visited, else 0.
trim_start_pos(value) ==
    LET ci == char_indices(value)
        hits == {k \in 1..Len(value) : is_alphanumeric(ci[k][2]) \/ ci[k][2] = "("}
    IN  IF value = <<>> THEN 0
        ELSE IF hits = {} THEN ci[Len(value)][1]
        ELSE ci[CHOOSE k \in hits : \A j \in hits : k <= j][1]

\* The second loop, over char_indices().rev(): end_pos is the position of the
\* last alphanumeric character or ')', else of the first character, else 0.
trim_end_pos(value) ==
    LET ci == char_indices(value)
        hits == {k \in 1..Len(value) : is_alphanumeric(ci[k][2]) \/ ci[k][2] = ")"}
    IN  IF value = <<>> THEN 0
        ELSE IF hits = {} THEN ci[1][1]
        ELSE ci[CHOOSE k \in hits : \A j \in hits : k >= j][1]

\* while !value.is_char_boundary(end_pos + 1) { end_pos += 1 }
\* The result is -1 when the loop finds no boundary within the string: every
\* index past the end is no boundary, so the loop does not end.
RECURSIVE advance_to_boundary(_, _)
advance_to_boundary(value, end_pos) ==
    IF is_char_boundary(value, end_pos + 1) THEN end_pos
    ELSE IF end_pos + 1 > byte_len(value) THEN -1
    ELSE advance_to_boundary(value, end_pos + 1)

\* &value[start..=end]: the characters of the byte range, or a panic when
\* the range is inverted or cuts a character.
slice_inclusive(value, start, end) ==
    IF start > end + 1 \/ ~is_char_boundary(value, start)
                       \/ ~is_char_boundary(value, end + 1)
    THEN [status |-> "panic", value |-> <<>>]
    ELSE LET ci == char_indices(value)
             keep == {k \in 1..Len(value) : ci[k][1] >= start /\ ci[k][1] <= end}
         IN  [status |-> "ok",
              value |-> IF keep = {} THEN <<>>
                        ELSE SubSeq(value,
                                    CHOOSE k \in keep : \A j \in keep : k <= j,
                                    CHOOSE k \in keep : \A j \in keep : k >= j)]

remove_special_surrounding_characters(value) ==
    LET start_pos == trim_start_pos(value)
        end_pos == advance_to_boundary(value, trim_end_pos(value))
    IN  IF end_pos = -1 THEN [status |-> "hang", value |-> <<>>]
        ELSE slice_inclusive(value, start_pos, end_pos)

\* The suffixes of s: suffixes(s)[k] is s from its k-th character on.
suffixes(s) == [k \in 1..Len(s) |-> SubSeq(s, k, Len(s))]

\* Regex::replace(&s, "") for a pattern anchored at the end of the text that
\* matches the suffixes starting at the positions starts: the leftmost one
\* is removed.
regex_replace(s, starts) ==
    IF starts = {} THEN s
    ELSE SubSeq(s, 1, (CHOOSE k \in starts : \A j \in starts : k <= j) - 1)

\* r" \(?20[2-4]\d\)?$"
re_year(x) ==
    \E p \in {0, 1}, q \in {0, 1} :
        /\ Len(x) = 5 + p + q
        /\ x[1] = " "
        /\ (p = 1 => x[2] = "(")
        /\ x[2 + p] = "2"
        /\ x[3 + p] = "0"
        /\ x[4 + p] \in {"2", "3", "4"}
        /\ is_digit(x[5 + p])
        /\ (q = 1 => x[6 + p] = ")")

\* r" \d+(st|nd|rd|th) season$"
re_nth_season(x) ==
    \E n \in 1..Len(x) :
        /\ Len(x) = 1 + n + 2 + 7
        /\ x[1] = " "
        /\ \A j \in 2..(n + 1) : is_digit(x[j])
        /\ SubSeq(x, n + 2, n + 3) \in
               {<<"s", "t">>, <<"n", "d">>, <<"r", "d">>, <<"t", "h">>}
        /\ SubSeq(x, n + 4, Len(x)) = <<" ", "s", "e", "a", "s", "o", "n">>

\* r" \(?WORD \d\)?$" for the words cour, season and part
re_word_digit(x, word) ==
    \E p \in {0, 1}, q \in {0, 1} :
        /\ Len(x) = 1 + p + Len(word) + 2 + q
        /\ x[1] = " "
        /\ (p = 1 => x[2] = "(")
        /\ SubSeq(x, 2 + p, 1 + p + Len(word)) = word
        /\ x[2 + p + Len(word)] = " "
        /\ is_digit(x[3 + p + Len(word)])
        /\ (q = 1 => x[Len(x)] = ")")

\* r" \(?cour \d\)?$"
re_cour(x) == re_word_digit(x, <<"c", "o", "u", "r">>)
\* r" \(?season \d\)?$"
re_season(x) == re_word_digit(x, <<"s", "e", "a", "s", "o", "n">>)
\* r" \(?part \d\)?$"
re_part(x) == re_word_digit(x, <<"p", "a", "r", "t">>)
\* r" \d$"
re_digit(x) == Len(x) = 2 /\ x[1] = " " /\ is_digit(x[2])

\* regex.replace(&s, "") for each of the six patterns
remove_year(s) == regex_replace(s, {k \in 1..Len(s) : re_year(suffixes(s)[k])})
remove_nth_season(s) == regex_replace(s, {k \in 1..Len(s) : re_nth_season(suffixes(s)[k])})
remove_cour(s) == regex_replace(s, {k \in 1..Len(s) : re_cour(suffixes(s)[k])})
remove_season(s) == regex_replace(s, {k \in 1..Len(s) : re_season(suffixes(s)[k])})
remove_part(s) == regex_replace(s, {k \in 1..Len(s) : re_part(suffixes(s)[k])})
remove_digit(s) == regex_replace(s, {k \in 1..Len(s) : re_digit(suffixes(s)[k])})

\* remove_regexes(&massaging_regexes, string): the fold over the six patterns
\* in order
remove_regexes(string) ==
    remove_digit(remove_part(remove_season(remove_cour(
        remove_nth_season(remove_year(string))))))

\* ------------------------------------------------------------ title pools

\* The titles of the model. A String is held by its text; chars gives its
\* characters.
Railg == "Railg"
Railgs == "Railgs"
Railgx == "Railgx"
Mu2 == "Mu 2"
Mu3 == "Mu 3"
Raxy == "Raxy"
Bangs == "!!!"
Empty == ""
Oshi == "U63A8"
OshiBracketed == "U3010 U63A8 U3011"

\* str::chars
chars(string) ==
    CASE string = Railg -> <<"R", "a", "i", "l", "g">>
      [] string = Railgs -> <<"R", "a", "i", "l", "g", "s">>
      [] string = Railgx -> <<"R", "a", "i", "l", "g", "x">>
      [] string = Mu2 -> <<"M", "u", " ", "2">>
      [] string = Mu3 -> <<"M", "u", " ", "3">>
      [] string = Raxy -> <<"R", "a", "x", "y">>
      [] string = Bangs -> <<"!", "!", "!">>
      [] string = Empty -> <<>>
      [] string = Oshi -> <<"U63A8">>
      [] string = OshiBracketed -> <<"U3010", "U63A8", "U3011">>

\* grandparentTitle values of the webhooks of the model
EventTitles == {Railg, Oshi, Raxy, Bangs, Empty}
\* title variants of the entries of the remote list
ListTitles == {Railgs, Railg, Mu2, OshiBracketed}
\* further titles the title matcher is applied to
OtherTitles == {Railgx, Mu3}

Max(S) == CHOOSE x \in S : \A y \in S : x >= y
Min(S) == CHOOSE x \in S : \A y \in S : x <= y

RECURSIVE Gcd(_, _)
Gcd(a, b) == IF b = 0 THEN a ELSE Gcd(b, a % b)
RECURSIVE LcmUpTo(_)
LcmUpTo(n) == IF n <= 1 THEN 1 ELSE (LcmUpTo(n - 1) * n) \div Gcd(LcmUpTo(n - 1), n)

\* The unit of an f64 confidence: 1.0 is ScoreScale. A multiple of 20 (for
\* the 0.05 penalty) and of every string length of the model.
ScoreScale ==
    20 * LcmUpTo(Max({Len(chars(t)) : t \in EventTitles \cup ListTitles \cup OtherTitles}))

\* const MINIMUM_CONFIDENCE: f64 = 0.8
MINIMUM_CONFIDENCE == (ScoreScale * 4) \div 5
\* the 0.05 the fallback pass subtracts
FALLBACK_PENALTY == ScoreScale \div 20

\* --------------------------------------------------- strsim::levenshtein

\* One pass of the inner loop of strsim's levenshtein: the cache row after
\* character a_elem (the i-th, from 0) has been compared with all of b.
RECURSIVE levenshtein_row(_, _, _, _, _, _, _)
levenshtein_row(cache, a_elem, b, j, result, distance_b, i) ==
    IF j > Len(b) THEN [cache |-> cache, result |-> result]
    ELSE LET cost == IF a_elem = b[j] THEN 0 ELSE 1
             distance_a == distance_b + cost
             next_b == cache[j]
             r == Min({result + 1, distance_a, next_b + 1})
         IN  levenshtein_row([cache EXCEPT ![j] = r], a_elem, b, j + 1, r, next_b, i)

RECURSIVE levenshtein_rows(_, _, _, _, _)
levenshtein_rows(a, b, i, cache, result) ==
    IF i >= Len(a) THEN result
    ELSE LET row == levenshtein_row(cache, a[i + 1], b, 1, i + 1, i, i)
         IN  levenshtein_rows(a, b, i + 1, row.cache, row.result)

levenshtein(a, b) ==
    IF Len(b) = 0 THEN Len(a)
    ELSE IF Len(a) = 0 THEN Len(b)
    ELSE levenshtein_rows(a, b, 0, [j \in 1..Len(b) |-> j], 0)

\* strsim::normalized_levenshtein: 1.0 - distance / max(len), 1.0 for two
\* empty strings.
normalized_levenshtein(a, b) ==
    IF Len(a) = 0 /\ Len(b) = 0 THEN ScoreScale
    ELSE ScoreScale - (levenshtein(a, b) * ScoreScale) \div Max({Len(a), Len(b)})

\* --------------------------------------------------------- anilist/data.rs

\* The titles vector of MediaTitle::find_match: the romaji, english and
\* native variants that are present, lower-cased, in that order.
available_titles(media_title) ==
    LET variants == <<media_title.romaji, media_title.english, media_title.native>>
        present == SelectSeq(variants, is_some)
    IN  [k \in 1..Len(present) |-> to_lowercase(chars(unwrap(present[k])))]

\* The direct pass: the best normalized_levenshtein over the titles.
direct_best(titles, string) ==
    Max({0} \cup {normalized_levenshtein(string, titles[k]) : k \in 1..Len(titles)})

\* One confidence of the fallback pass:
\* (normalized_levenshtein(massaged_string, massaged_title) - 0.05).max(0.0)
fallback_confidence(massaged_string, massaged_title) ==
    Max({0, normalized_levenshtein(massaged_string, massaged_title) - FALLBACK_PENALTY})

\* The fallback loop from title k on. The massaged title is computed before
\* it is compared: a title whose trimming fails ends the call there.
RECURSIVE fallback_loop(_, _, _, _)
fallback_loop(titles, massaged_string, k, best_match) ==
    IF k > Len(titles) THEN [status |-> "ok", confidence |-> best_match]
    ELSE LET massaged_title ==
                 remove_special_surrounding_characters(remove_regexes(titles[k]))
         IN  IF massaged_title.status # "ok"
             THEN [status |-> massaged_title.status, confidence |-> 0]
             ELSE fallback_loop(titles, massaged_string, k + 1,
                      Max({best_match,
                           fallback_confidence(massaged_string, massaged_title.value)}))

\* MediaTitle::find_match(&self, string) -> f64. status is "ok" when the call
\* returns, "panic" or "hang" when the trimming of a massaged string does not.
MediaTitle_find_match(media_title, string) ==
    LET titles == available_titles(media_title)
        best_match == direct_best(titles, string)
        massaged_string == remove_special_surrounding_characters(remove_regexes(string))
    IN  IF \E k \in 1..Len(titles) : titles[k] = string
        THEN [status |-> "ok", confidence |-> ScoreScale]
        ELSE IF best_match >= MINIMUM_CONFIDENCE
        THEN [status |-> "ok", confidence |-> best_match]
        ELSE IF massaged_string.status # "ok"
        THEN [status |-> massaged_string.status, confidence |-> 0]
        ELSE fallback_loop(titles, massaged_string.value, 1, best_match)

\* MediaListGroup::find_id
find_id(entries, id) ==
    LET hits == {k \in 1..Len(entries) : entries[k].id = id}
    IN  IF hits = {} THEN None ELSE Some(entries[Min(hits)])

\* The loop of MediaListGroup::find_match from entry k on; best_match is the
\* pair (confidence, index of the entry or 0).
RECURSIVE find_match_loop(_, _, _, _)
find_match_loop(entries, match_title, k, best_match) ==
    IF k > Len(entries)
    THEN [status |-> "ok",
          matched |-> IF best_match[2] # 0 /\ best_match[1] >= MINIMUM_CONFIDENCE
                      THEN Some(entries[best_match[2]]) ELSE None]
    ELSE LET confidence == MediaTitle_find_match(entries[k].media.title, match_title)
         IN  IF confidence.status # "ok"
             THEN [status |-> confidence.status, matched |-> None]
             ELSE IF confidence.confidence = ScoreScale
             THEN [status |-> "ok", matched |-> Some(entries[k])]
             ELSE find_match_loop(entries, match_title, k + 1,
                      IF confidence.confidence > best_match[1]
                      THEN <<confidence.confidence, k>> ELSE best_match)

\* MediaListGroup::find_match(&self, title) -> Option<&MediaList>
MediaListGroup_find_match(entries, title) ==
    find_match_loop(entries, to_lowercase(chars(title)), 1, <<0, 0>>)

\* ----------------------------------------------------------------- plex.rs

\* Season numbers (parentIndex) of the webhooks of the model; 0 is specials.
Seasons == 0..MaxSeason
\* Metadata.type values: one that is MediaType::Episode and one that is not.
MediaTypes == {"episode", "movie"}
EventKinds == {"media.scrobble", "library.new"}
AccountNames == {"yukikaze", "shiranui"}

\* A payload serde_json cannot parse into a Webhook.
MalformedPayload ==
    [wellformed |-> FALSE, event |-> "", Account |-> [title |-> ""], Metadata |-> None]

\* A complete Metadata object.
Metadata(type, title, season, episode) ==
    [type |-> Some(type), grandparentTitle |-> Some(title),
     parentIndex |-> Some(season), index |-> Some(episode)]

\* A Metadata object without grandparentTitle and index, as library.new sends.
IncompleteMetadata ==
    [type |-> Some("episode"), grandparentTitle |-> None,
     parentIndex |-> Some(1), index |-> None]

Payload(event, account, metadata) ==
    [wellformed |-> TRUE, event |-> event, Account |-> [title |-> account],
     Metadata |-> metadata]

\* The payloads of the model: first-season episode scrobbles of every title
\* and episode by the first account, and around them one payload for each
\* way a webhook differs: the other account, another season, another media
\* type, another event, no or incomplete metadata, no JSON.
Payloads ==
    {Payload("media.scrobble", "yukikaze", Some(Metadata("episode", t, 1, n))) :
         t \in EventTitles, n \in 1..MaxEpisode}
    \cup {Payload("media.scrobble", "shiranui", Some(Metadata("episode", Railg, 1, n))) :
              n \in 1..MaxEpisode}
    \cup {Payload("media.scrobble", "yukikaze", Some(Metadata("episode", Railg, s, 1))) :
              s \in Seasons}
    \cup {Payload("media.scrobble", "yukikaze", Some(Metadata("movie", Railg, s, 1))) :
              s \in {0, 1}}
    \cup {Payload(e, "yukikaze", m) :
              e \in EventKinds,
              m \in {None, Some(IncompleteMetadata),
                     Some(Metadata("episode", Railg, 1, 1))}}
    \cup {MalformedPayload}

\* webhook_metadata_wrapper: a Metadata object that is missing, or does not
\* deserialize into WebhookMetadata, becomes None.
webhook_metadata_wrapper(raw) ==
    IF is_none(raw) THEN None
    ELSE LET m == unwrap(raw)
         IN  IF is_none(m.type) \/ is_none(m.grandparentTitle)
                \/ is_none(m.parentIndex) \/ is_none(m.index)
             THEN None
             ELSE Some([media_type |-> unwrap(m.type),
                        title |-> unwrap(m.grandparentTitle),
                        season_number |-> unwrap(m.parentIndex),
                        episode_number |-> unwrap(m.index)])

\* parse_webhook for which a Metadata object that does not deserialize is an
\* error of the payload.
parse_webhook_strict(payload) ==
    IF ~payload.wellformed THEN None
    ELSE IF is_some(payload.Metadata)
            /\ is_none(webhook_metadata_wrapper(payload.Metadata))
    THEN None
    ELSE Some([event |-> payload.event,
               account |-> [name |-> payload.Account.title],
               metadata |-> webhook_metadata_wrapper(payload.Metadata)])

\* serde_json::from_str::<Webhook>: Err is None.
parse_webhook(payload) ==
    IF ~payload.wellformed THEN None
    ELSE Some([event |-> payload.event,
               account |-> [name |-> payload.Account.title],
               metadata |-> webhook_metadata_wrapper(payload.Metadata)])

\* is_actionable with the metadata test placed before the event test.
is_actionable_metadata_first(webhook, multi_season_flag) ==
    IF is_none(webhook.metadata) THEN "NoMetadata"
    ELSE IF webhook.event # "media.scrobble" THEN "NonScrobbleEvent"
    ELSE IF unwrap(webhook.metadata).media_type # "episode" THEN "IncorrectType"
    ELSE IF ~(IF multi_season_flag
              THEN unwrap(webhook.metadata).season_number >= 1
              ELSE unwrap(webhook.metadata).season_number = 1)
    THEN "IncorrectSeason"
    ELSE "Actionable"

\* is_actionable with a multi-season gate that lets every season pass.
is_actionable_any_season(webhook, multi_season_flag) ==
    IF webhook.event # "media.scrobble" THEN "NonScrobbleEvent"
    ELSE IF is_none(webhook.metadata) THEN "NoMetadata"
    ELSE IF unwrap(webhook.metadata).media_type # "episode" THEN "IncorrectType"
    ELSE IF ~(IF multi_season_flag
              THEN unwrap(webhook.metadata).season_number >= 0
              ELSE unwrap(webhook.metadata).season_number = 1)
    THEN "IncorrectSeason"
    ELSE "Actionable"

\* Webhook::is_actionable
is_actionable(webhook, multi_season_flag) ==
    IF webhook.event # "media.scrobble" THEN "NonScrobbleEvent"
    ELSE IF is_none(webhook.metadata) THEN "NoMetadata"
    ELSE IF unwrap(webhook.metadata).media_type # "episode" THEN "IncorrectType"
    ELSE IF ~(IF multi_season_flag
              THEN unwrap(webhook.metadata).season_number >= 1
              ELSE unwrap(webhook.metadata).season_number = 1)
    THEN "IncorrectSeason"
    ELSE "Actionable"

\* ------------------------------------------------------------------- db.rs

\* Entry ids of the model: 1 and 2 are on the remote list, 3 is not.
ListIds == {1, 2}
OverrideIds == {1, 3}
OverrideTitles == {Railg}
OverrideOffsets == {-1}

\* AnimeOverride, the row as sqlx::FromRow reads it: id and episode_offset.
AnimeOverride(row) == [id |-> row.id, episode_offset |-> row.episode_offset]

\* get_episode_offset that takes every override as one without an offset.
get_episode_offset_zero(o) == 0

\* AnimeOverride::get_episode_offset
get_episode_offset(o) == IF is_some(o.episode_offset) THEN unwrap(o.episode_offset) ELSE 0

\* get_override_by_id: SELECT * FROM overrides WHERE id = ?
get_override_by_id(rows, id) ==
    IF \E row \in rows : row.id = id
    THEN Some(AnimeOverride(CHOOSE row \in rows : row.id = id))
    ELSE None

\* get_override_by_title: SELECT * FROM overrides WHERE title = ?
get_override_by_title(rows, title) ==
    IF \E row \in rows : row.title = Some(title)
    THEN Some(AnimeOverride(CHOOSE row \in rows : row.title = Some(title)))
    ELSE None

\* The rows of the overrides table that conflict with a new row: the row of
\* the same id (the primary key) and the row of the same title (unique; NULL
\* titles do not conflict).
conflicting(rows, new) ==
    {row \in rows : row.id = new.id \/ (is_some(new.title) /\ row.title = new.title)}

\* INSERT OR REPLACE INTO overrides: the conflicting rows are deleted and the
\* new row is inserted.
insert_or_replace(rows, new) == (rows \ conflicting(rows, new)) \cup {new}

\* set_override with INSERT in place of INSERT OR REPLACE: a conflicting write
\* fails and the table is left as it is.
set_override_insert_only(rows, id, title, episode_offset) ==
    LET new == [id |-> id, title |-> title, episode_offset |-> episode_offset]
    IN  IF is_none(title) /\ is_none(episode_offset)
        THEN {row \in rows : row.id # id}
        ELSE IF conflicting(rows, new) # {} THEN rows
        ELSE rows \cup {new}

\* set_override that keeps the stored value of a field that is None.
set_override_merge(rows, id, title, episode_offset) ==
    LET old == IF \E row \in rows : row.id = id
               THEN CHOOSE row \in rows : row.id = id
               ELSE [id |-> id, title |-> None, episode_offset |-> None]
    IN  IF is_none(title) /\ is_none(episode_offset)
        THEN {row \in rows : row.id # id}
        ELSE insert_or_replace(rows,
                 [id |-> id,
                  title |-> IF is_none(title) THEN old.title ELSE title,
                  episode_offset |-> IF is_none(episode_offset)
                                     THEN old.episode_offset ELSE episode_offset])

\* set_override: DELETE when both fields are None, else INSERT OR REPLACE,
\* which first removes the rows that hold the id or the title.
set_override(rows, id, title, episode_offset) ==
    IF is_none(title) /\ is_none(episode_offset)
    THEN {row \in rows : row.id # id}
    ELSE insert_or_replace(rows,
             [id |-> id, title |-> title, episode_offset |-> episode_offset])

\* -------------------------------------------------------------- anilist.rs

MediaTitle(romaji, english, native) ==
    [romaji |-> romaji, english |-> english, native |-> native]

MediaList(id, progress, title) ==
    [id |-> id, progress |-> progress, media |-> [title |-> title]]

\* The lists of the MediaListCollection the remote returns: one per status
\* (CURRENT, REPEATING), with the progress the remote holds for each entry.
MediaListCollection(progress) ==
    << <<MediaList(1, progress[1], MediaTitle(Some(Railgs), None, Some(OshiBracketed)))>>,
       <<MediaList(2, progress[2], MediaTitle(Some(Railg), Some(Mu2), None))>> >>

\* get_watching_list that returns the entries of the first list only.
get_watching_list_first_list(lists) == IF lists = <<>> THEN <<>> ELSE Head(lists)

\* get_watching_list: the entries of all lists appended in order.
RECURSIVE get_watching_list(_)
get_watching_list(lists) ==
    IF lists = <<>> THEN <<>> ELSE Head(lists) \o get_watching_list(Tail(lists))

\* The variables of the mutation with the progress of the entry as it is.
MediaListCollectionMutateVariables_same_progress(media_list) ==
    [id |-> media_list.id, progress |-> media_list.progress]

\* MediaList::update, the variables of the mutation it sends.
MediaListCollectionMutateVariables(media_list) ==
    [id |-> media_list.id, progress |-> media_list.progress + 1]

\* MediaList::update, its result: Ok(data.progress == self.progress + 1)
update_confirmed(media_list, saved_progress) == saved_progress = media_list.progress + 1

\* ----------------------------------------------------------------- main.rs

\* Request-processing units of the server. Spec runs the scrobbles of "r1"
\* one after another.
Requests == {"r1", "r2"}

VARIABLES
    multi_season,     \* state::Global.multi_season
    plex_user,        \* state::Global.plex_user: Option<String>
    anilist_client,   \* state::Global.anilist_client: Option<AnilistClient>
    overrides,        \* the rows of the overrides table
    remote_progress,  \* the progress the remote holds for each list entry, from 0
    req,              \* each request: its position in scrobble() and its locals
    applied,          \* the variables of the mutations the remote saved
    call              \* one call of a function of the program: input and result

vars ==
    <<multi_season, plex_user, anilist_client, overrides, remote_progress, req,
      applied, call>>

\* No function is called on its own.
NoCall == [fn |-> "", pc |-> "", input |-> <<>>, result |-> <<>>]

\* A request that has not started: no local of scrobble() is set.
IdleRequest ==
    [pc |-> "idle",
     webhook |-> None,
     state |-> "",
     metadata_unwrapped |-> FALSE,
     fetches |-> 0,
     fetch_result |-> "",
     media_list_entries |-> <<>>,
     title_lookups |-> 0,
     id_lookups |-> 0,
     matcher_calls |-> 0,
     anime_override |-> None,
     matched_media_list |-> None,
     episode_offset |-> 0,
     update_requests |-> <<>>,
     update_result |-> "",
     outcome |-> ""]

\* return "<outcome>"
respond(rec, outcome) == [rec EXCEPT !.pc = "done", !.outcome = outcome]

\* The comparison as "the episode is not behind the progress".
should_update_not_behind(episode_number, progress) == episode_number >= progress

\* if episode_number == matched_media_list.progress + 1
should_update(episode_number, progress) == episode_number = progress + 1

\* scrobble_start in which the arms of IncorrectType and IncorrectSeason do
\* not return.
scrobble_start_continue_rejected(payload, multi_season_flag, user_restriction, client) ==
    LET parsed == parse_webhook(payload)
        rec == [IdleRequest EXCEPT !.webhook = parsed]
    IN  IF is_none(parsed) THEN respond(rec, "ERROR")
        ELSE LET webhook == unwrap(parsed)
                 state == is_actionable(webhook, multi_season_flag)
                 classified == [rec EXCEPT !.state = state]
             IN  CASE state = "NoMetadata" -> respond(classified, "ERROR")
                   [] state = "NonScrobbleEvent" -> respond(classified, "NO OP")
                   [] OTHER ->
                        IF is_some(user_restriction)
                           /\ unwrap(user_restriction) # webhook.account.name
                        THEN respond(classified, "NO OP")
                        ELSE IF is_none(client) THEN respond(classified, "ERROR")
                        ELSE [classified EXCEPT !.pc = "fetch", !.fetches = @ + 1]

\* scrobble_start without the test of the client.
scrobble_start_no_client_check(payload, multi_season_flag, user_restriction, client) ==
    LET parsed == parse_webhook(payload)
        rec == [IdleRequest EXCEPT !.webhook = parsed]
    IN  IF is_none(parsed) THEN respond(rec, "ERROR")
        ELSE LET webhook == unwrap(parsed)
                 state == is_actionable(webhook, multi_season_flag)
                 classified == [rec EXCEPT !.state = state]
             IN  CASE state = "NoMetadata" -> respond(classified, "ERROR")
                   [] state = "NonScrobbleEvent" -> respond(classified, "NO OP")
                   [] state \in {"IncorrectType", "IncorrectSeason"} ->
                        respond([classified EXCEPT !.metadata_unwrapped = TRUE], "NO OP")
                   [] OTHER ->
                        IF is_some(user_restriction)
                           /\ unwrap(user_restriction) # webhook.account.name
                        THEN respond(classified, "NO OP")
                        ELSE [classified EXCEPT !.pc = "fetch", !.fetches = @ + 1]

\* scrobble_start whose arm of NonScrobbleEvent unwraps the metadata as the
\* arms of IncorrectType and IncorrectSeason do.
scrobble_start_unwrap_non_scrobble(payload, multi_season_flag, user_restriction, client) ==
    LET parsed == parse_webhook(payload)
        rec == [IdleRequest EXCEPT !.webhook = parsed]
    IN  IF is_none(parsed) THEN respond(rec, "ERROR")
        ELSE LET webhook == unwrap(parsed)
                 state == is_actionable(webhook, multi_season_flag)
                 classified == [rec EXCEPT !.state = state]
             IN  CASE state = "NoMetadata" -> respond(classified, "ERROR")
                   [] state \in {"NonScrobbleEvent", "IncorrectType", "IncorrectSeason"} ->
                        respond([classified EXCEPT !.metadata_unwrapped = TRUE], "NO OP")
                   [] OTHER ->
                        IF is_some(user_restriction)
                           /\ unwrap(user_restriction) # webhook.account.name
                        THEN respond(classified, "NO OP")
                        ELSE IF is_none(client) THEN respond(classified, "ERROR")
                        ELSE [classified EXCEPT !.pc = "fetch", !.fetches = @ + 1]

\* scrobble_start that lets through the accounts other than the restriction.
scrobble_start_restriction_inverted(payload, multi_season_flag, user_restriction, client) ==
    LET parsed == parse_webhook(payload)
        rec == [IdleRequest EXCEPT !.webhook = parsed]
    IN  IF is_none(parsed) THEN respond(rec, "ERROR")
        ELSE LET webhook == unwrap(parsed)
                 state == is_actionable(webhook, multi_season_flag)
                 classified == [rec EXCEPT !.state = state]
             IN  CASE state = "NoMetadata" -> respond(classified, "ERROR")
                   [] state = "NonScrobbleEvent" -> respond(classified, "NO OP")
                   [] state \in {"IncorrectType", "IncorrectSeason"} ->
                        respond([classified EXCEPT !.metadata_unwrapped = TRUE], "NO OP")
                   [] OTHER ->
                        IF is_some(user_restriction)
                           /\ unwrap(user_restriction) = webhook.account.name
                        THEN respond(classified, "NO OP")
                        ELSE IF is_none(client) THEN respond(classified, "ERROR")
                        ELSE [classified EXCEPT !.pc = "fetch", !.fetches = @ + 1]

\* The classification and the checks of scrobble() up to the call of
\* get_watching_list: the request as it is left when the handler returns or
\* awaits the watch list.
scrobble_start(payload, multi_season_flag, user_restriction, client) ==
    LET parsed == parse_webhook(payload)
        rec == [IdleRequest EXCEPT !.webhook = parsed]
    IN  IF is_none(parsed) THEN respond(rec, "ERROR")
        ELSE LET webhook == unwrap(parsed)
                 state == is_actionable(webhook, multi_season_flag)
                 classified == [rec EXCEPT !.state = state]
             IN  CASE state = "NoMetadata" -> respond(classified, "ERROR")
                   [] state = "NonScrobbleEvent" -> respond(classified, "NO OP")
                   [] state \in {"IncorrectType", "IncorrectSeason"} ->
                        respond([classified EXCEPT !.metadata_unwrapped = TRUE], "NO OP")
                   [] OTHER ->
                        IF is_some(user_restriction)
                           /\ unwrap(user_restriction) # webhook.account.name
                        THEN respond(classified, "NO OP")
                        ELSE IF is_none(client) THEN respond(classified, "ERROR")
                        ELSE [classified EXCEPT !.pc = "fetch", !.fetches = @ + 1]

\* scrobble(), lines 161-178: the offset of the override, the comparison with
\* the progress of the matched entry and the call of update_progress.
scrobble_decide(rec, anime_override_row) ==
    LET metadata == unwrap(unwrap(rec.webhook).metadata)
        matched == unwrap(rec.matched_media_list)
        episode_offset == IF is_some(anime_override_row)
                          THEN get_episode_offset(unwrap(anime_override_row))
                          ELSE 0
        episode_number == metadata.episode_number + episode_offset
        decided == [rec EXCEPT !.anime_override = anime_override_row,
                               !.episode_offset = episode_offset]
    IN  IF should_update(episode_number, matched.progress)
        THEN [decided EXCEPT !.pc = "update",
                             !.update_requests =
                                 Append(@, MediaListCollectionMutateVariables(matched))]
        ELSE respond(decided, "OK")

\* scrobble_resolve that matches by title although an override is found.
scrobble_resolve_always_fuzzy(rec, rows) ==
    LET metadata == unwrap(unwrap(rec.webhook).metadata)
        by_title == get_override_by_title(rows, metadata.title)
        found == MediaListGroup_find_match(rec.media_list_entries, metadata.title)
        looked == [rec EXCEPT !.title_lookups = @ + 1,
                              !.anime_override = by_title,
                              !.matcher_calls = @ + 1,
                              !.matched_media_list = found.matched]
    IN  CASE found.status = "panic" -> respond(looked, "PANIC")
          [] found.status = "hang" -> [looked EXCEPT !.pc = "hung"]
          [] OTHER ->
               IF is_none(found.matched) THEN respond(looked, "NO OP")
               ELSE IF is_none(by_title) THEN [looked EXCEPT !.pc = "by_id"]
               ELSE scrobble_decide(looked, by_title)

\* scrobble_resolve that answers "OK" when no entry is found.
scrobble_resolve_no_match_ok(rec, rows) ==
    LET metadata == unwrap(unwrap(rec.webhook).metadata)
        by_title == get_override_by_title(rows, metadata.title)
        found == IF is_some(by_title)
                 THEN [status |-> "ok",
                       matched |-> find_id(rec.media_list_entries, unwrap(by_title).id)]
                 ELSE MediaListGroup_find_match(rec.media_list_entries, metadata.title)
        looked == [rec EXCEPT !.title_lookups = @ + 1,
                              !.anime_override = by_title,
                              !.matcher_calls = IF is_some(by_title) THEN @ ELSE @ + 1,
                              !.matched_media_list = found.matched]
    IN  CASE found.status = "panic" -> respond(looked, "PANIC")
          [] found.status = "hang" -> [looked EXCEPT !.pc = "hung"]
          [] OTHER ->
               IF is_none(found.matched) THEN respond(looked, "OK")
               ELSE IF is_none(by_title) THEN [looked EXCEPT !.pc = "by_id"]
               ELSE scrobble_decide(looked, by_title)

\* scrobble_resolve that matches by title when the entry of the override is
\* not in the list.
scrobble_resolve_fuzzy_when_absent(rec, rows) ==
    LET metadata == unwrap(unwrap(rec.webhook).metadata)
        by_title == get_override_by_title(rows, metadata.title)
        by_id == IF is_some(by_title)
                 THEN find_id(rec.media_list_entries, unwrap(by_title).id)
                 ELSE None
        found == IF is_some(by_id)
                 THEN [status |-> "ok", matched |-> by_id]
                 ELSE MediaListGroup_find_match(rec.media_list_entries, metadata.title)
        looked == [rec EXCEPT !.title_lookups = @ + 1,
                              !.anime_override = by_title,
                              !.matcher_calls = IF is_some(by_id) THEN @ ELSE @ + 1,
                              !.matched_media_list = found.matched]
    IN  CASE found.status = "panic" -> respond(looked, "PANIC")
          [] found.status = "hang" -> [looked EXCEPT !.pc = "hung"]
          [] OTHER ->
               IF is_none(found.matched) THEN respond(looked, "NO OP")
               ELSE IF is_none(by_title) THEN [looked EXCEPT !.pc = "by_id"]
               ELSE scrobble_decide(looked, by_title)

\* scrobble(), lines 144-160: the lookup of the override by title and the
\* resolution of the entry by id or by title.
scrobble_resolve(rec, rows) ==
    LET metadata == unwrap(unwrap(rec.webhook).metadata)
        by_title == get_override_by_title(rows, metadata.title)
        found == IF is_some(by_title)
                 THEN [status |-> "ok",
                       matched |-> find_id(rec.media_list_entries, unwrap(by_title).id)]
                 ELSE MediaListGroup_find_match(rec.media_list_entries, metadata.title)
        looked == [rec EXCEPT !.title_lookups = @ + 1,
                              !.anime_override = by_title,
                              !.matcher_calls = IF is_some(by_title) THEN @ ELSE @ + 1,
                              !.matched_media_list = found.matched]
    IN  CASE found.status = "panic" -> respond(looked, "PANIC")
          [] found.status = "hang" -> [looked EXCEPT !.pc = "hung"]
          [] OTHER ->
               IF is_none(found.matched) THEN respond(looked, "NO OP")
               ELSE IF is_none(by_title) THEN [looked EXCEPT !.pc = "by_id"]
               ELSE scrobble_decide(looked, by_title)

\* POST /: the handler runs from the payload to its first await.
scrobble(r, payload) ==
    /\ req[r].pc \in {"idle", "done"}
    /\ req' = [req EXCEPT ![r] =
                  scrobble_start(payload, multi_season, plex_user, anilist_client)]
    /\ UNCHANGED <<multi_season, plex_user, anilist_client, overrides,
                   remote_progress, applied, call>>

\* watching_list_response that drops the client when the fetch fails.
watching_list_response_drop_client(r, ok) ==
    /\ req[r].pc = "fetch"
    /\ req' = [req EXCEPT ![r] =
                  IF ok
                  THEN [@ EXCEPT !.pc = "by_title",
                                 !.fetch_result = "Ok",
                                 !.metadata_unwrapped = TRUE,
                                 !.media_list_entries =
                                     get_watching_list(MediaListCollection(remote_progress))]
                  ELSE respond([@ EXCEPT !.fetch_result = "Err"], "OK")]
    /\ anilist_client' = IF ok THEN anilist_client ELSE None
    /\ UNCHANGED <<multi_season, plex_user, overrides,
                   remote_progress, applied, call>>

\* get_watching_list().await returns: the flattened list, or an error, after
\* which the handler falls through to "OK".
watching_list_response(r, ok) ==
    /\ req[r].pc = "fetch"
    /\ req' = [req EXCEPT ![r] =
                  IF ok
                  THEN [@ EXCEPT !.pc = "by_title",
                                 !.fetch_result = "Ok",
                                 !.metadata_unwrapped = TRUE,
                                 !.media_list_entries =
                                     get_watching_list(MediaListCollection(remote_progress))]
                  ELSE respond([@ EXCEPT !.fetch_result = "Err"], "OK")]
    /\ UNCHANGED <<multi_season, plex_user, anilist_client, overrides,
                   remote_progress, applied, call>>

\* db::get_override_by_title().await returns and the entry is resolved.
lookup_override_by_title(r) ==
    /\ req[r].pc = "by_title"
    /\ req' = [req EXCEPT ![r] = scrobble_resolve(@, overrides)]
    /\ UNCHANGED <<multi_season, plex_user, anilist_client, overrides,
                   remote_progress, applied, call>>

\* lookup_override_by_title, with the lookup kept in call: the table as it is
\* when the override is looked up by title, and the override found.
lookup_override_by_title_recorded(r) ==
    /\ req[r].pc = "by_title"
    /\ req' = [req EXCEPT ![r] = scrobble_resolve(@, overrides)]
    /\ call' = [fn |-> "get_override_by_title", pc |-> "ended",
                input |-> [rows |-> overrides, request |-> r],
                result |-> get_override_by_title(overrides,
                               unwrap(unwrap(req[r].webhook).metadata).title)]
    /\ UNCHANGED <<multi_season, plex_user, anilist_client, overrides,
                   remote_progress, applied>>

\* lookup_override_by_id that stores an empty record for an entry that has
\* none.
lookup_override_by_id_creating(r) ==
    /\ req[r].pc = "by_id"
    /\ req' = [req EXCEPT ![r] =
                  scrobble_decide([@ EXCEPT !.id_lookups = @ + 1],
                      get_override_by_id(overrides, unwrap(@.matched_media_list).id))]
    /\ overrides' =
           IF is_some(get_override_by_id(overrides, unwrap(req[r].matched_media_list).id))
           THEN overrides
           ELSE overrides \cup {[id |-> unwrap(req[r].matched_media_list).id,
                                 title |-> None, episode_offset |-> None]}
    /\ UNCHANGED <<multi_season, plex_user, anilist_client,
                   remote_progress, applied, call>>

\* lookup_override_by_id that gives way to another request that is updating
\* the same entry.
lookup_override_by_id_claimed(r) ==
    /\ req[r].pc = "by_id"
    /\ req' = [req EXCEPT ![r] =
                  IF \E q \in Requests \ {r} :
                         /\ req[q].pc = "update"
                         /\ unwrap(req[q].matched_media_list).id
                                = unwrap(@.matched_media_list).id
                  THEN respond([@ EXCEPT !.id_lookups = @ + 1], "OK")
                  ELSE scrobble_decide([@ EXCEPT !.id_lookups = @ + 1],
                           get_override_by_id(overrides, unwrap(@.matched_media_list).id))]
    /\ UNCHANGED <<multi_season, plex_user, anilist_client, overrides,
                   remote_progress, applied, call>>

\* db::get_override_by_id().await returns and the update is decided.
lookup_override_by_id(r) ==
    /\ req[r].pc = "by_id"
    /\ req' = [req EXCEPT ![r] =
                  scrobble_decide([@ EXCEPT !.id_lookups = @ + 1],
                      get_override_by_id(overrides, unwrap(@.matched_media_list).id))]
    /\ UNCHANGED <<multi_season, plex_user, anilist_client, overrides,
                   remote_progress, applied, call>>

\* What the remote does with a SaveMediaListEntry mutation: it saves the
\* progress and returns it, returns another progress, or the call fails.
UpdateReplies == {"saved", "other", "error"}

\* update_response that sends the mutation once more when the progress was
\* not confirmed.
update_response_retry(r, reply) ==
    /\ req[r].pc = "update"
    /\ LET matched == unwrap(req[r].matched_media_list)
           variables == req[r].update_requests[Len(req[r].update_requests)]
           saved_progress == IF reply = "saved" THEN variables.progress
                             ELSE variables.progress - 1
           result == IF reply = "error" THEN "Err"
                     ELSE IF update_confirmed(matched, saved_progress) THEN "Ok(true)"
                     ELSE "Ok(false)"
       IN  /\ req' = [req EXCEPT ![r] =
                         IF result # "Ok(true)" /\ Len(@.update_requests) < 2
                         THEN [@ EXCEPT !.update_result = result,
                                        !.update_requests = Append(@, variables)]
                         ELSE respond([@ EXCEPT !.update_result = result], "OK")]
           /\ IF reply = "saved"
              THEN /\ remote_progress' =
                          [remote_progress EXCEPT ![variables.id] = variables.progress]
                   /\ applied' = applied \cup {variables}
              ELSE UNCHANGED <<remote_progress, applied>>
    /\ UNCHANGED <<multi_season, plex_user, anilist_client, overrides, call>>

\* update_progress().await returns; the handler logs the result and returns
\* "OK" in each case.
update_response(r, reply) ==
    /\ req[r].pc = "update"
    /\ LET matched == unwrap(req[r].matched_media_list)
           variables == req[r].update_requests[Len(req[r].update_requests)]
           saved_progress == IF reply = "saved" THEN variables.progress
                             ELSE variables.progress - 1
           result == IF reply = "error" THEN "Err"
                     ELSE IF update_confirmed(matched, saved_progress) THEN "Ok(true)"
                     ELSE "Ok(false)"
       IN  /\ req' = [req EXCEPT ![r] = respond([@ EXCEPT !.update_result = result], "OK")]
           /\ IF reply = "saved"
              THEN /\ remote_progress' =
                          [remote_progress EXCEPT ![variables.id] = variables.progress]
                   /\ applied' = applied \cup {variables}
              ELSE UNCHANGED <<remote_progress, applied>>
    /\ UNCHANGED <<multi_season, plex_user, anilist_client, overrides, call>>

\* --------------------------------------------------------------- api.rs

\* The bodies of POST /api/anime/<id>/edit of the model.
OverrideRequests ==
    [title : {None, Some(Empty)} \cup {Some(t) : t \in OverrideTitles},
     episode_offset : {None, Some(0)} \cup {Some(n) : n \in OverrideOffsets}]

\* override_fields that passes an offset of 0 on.
override_fields_keep_zero(data) ==
    [title |-> IF data.title = Some(Empty) THEN None ELSE data.title,
     episode_offset |-> data.episode_offset]

\* anime_override, lines 60-67: Some("") and Some(0) become None.
override_fields(data) ==
    [title |-> IF data.title = Some(Empty) THEN None ELSE data.title,
     episode_offset |-> IF data.episode_offset = Some(0) THEN None
                        ELSE data.episode_offset]

\* anime_override, line 68: the table after db::set_override with the fields.
override_saved(rows, id, data) ==
    set_override(rows, id, override_fields(data).title,
                 override_fields(data).episode_offset)

\* anime_override: "" and 0 become None, then db::set_override.
anime_override(id, data) ==
    /\ overrides' = override_saved(overrides, id, data)
    /\ UNCHANGED <<multi_season, plex_user, anilist_client, remote_progress,
                   req, applied, call>>

\* The titles and offsets of the edits that are made one after another.
StoreTitles == {Railg, Oshi}
StoreOffsets == {-1, 1}

\* The bodies of those edits: each field omitted, empty ("" or 0) or set.
StoreRequests ==
    [title : {None, Some(Empty)} \cup {Some(t) : t \in StoreTitles},
     episode_offset : {None, Some(0)} \cup {Some(n) : n \in StoreOffsets}]

\* anime_override, with the edit kept in call: the table before it, its id
\* and body, and the table after it.
anime_override_recorded(id, data) ==
    /\ overrides' = override_saved(overrides, id, data)
    /\ call' = [fn |-> "anime_override", pc |-> "ended",
                input |-> [rows |-> overrides, id |-> id, data |-> data],
                result |-> override_saved(overrides, id, data)]
    /\ UNCHANGED <<multi_season, plex_user, anilist_client, remote_progress,
                   req, applied>>

\* ------------------------------------------------- calls of one function

\* The webhooks Webhook::is_actionable is called with: every event, with no
\* metadata or with metadata of every media type and season.
ClassifierWebhooks ==
    {[event |-> e, account |-> [name |-> "yukikaze"], metadata |-> m] :
         e \in EventKinds,
         m \in {None} \cup
               {Some([media_type |-> t, title |-> Railg, season_number |-> s,
                      episode_number |-> 1]) : t \in MediaTypes, s \in Seasons}}

\* The entries MediaListGroup::find_match is called with: the two entries of
\* the remote list, an entry titled "!!!", a second entry titled "Railg" and
\* an entry without titles.
MatchEntries ==
    {MediaList(1, 0, MediaTitle(Some(Railgs), None, Some(OshiBracketed))),
     MediaList(2, 0, MediaTitle(Some(Railg), Some(Mu2), None)),
     MediaList(3, 0, MediaTitle(None, None, Some(Bangs))),
     MediaList(4, 0, MediaTitle(None, Some(Railg), None)),
     MediaList(5, 0, MediaTitle(None, None, None))}

\* The watch lists: up to MaxListLen entries, each at most once.
MatchLists ==
    {list \in UNION {[1..n -> MatchEntries] : n \in 0..MaxListLen} :
         \A j, k \in 1..Len(list) : list[j] = list[k] => j = k}

\* The titles find_match is called with.
MatchTitles == EventTitles \cup OtherTitles

\* The characters of the strings remove_special_surrounding_characters is
\* called with: a letter, a special character, the two parentheses, and a
\* special character and a letter of three bytes.
TrimAlphabet == {"a", "!", "(", ")", "U3010", "U63A8"}

\* The strings remove_special_surrounding_characters is called with.
TrimStrings == UNION {[1..n -> TrimAlphabet] : n \in 0..MaxTrimLen}

\* The Metadata objects serde_json::from_str is called with: each of the
\* four fields present or missing.
RawMetadatas ==
    [type : {None, Some("episode")},
     grandparentTitle : {None, Some(Railg)},
     parentIndex : {None, Some(1)},
     index : {None, Some(1)}]

\* The payloads serde_json::from_str is called with.
ParsePayloads ==
    {Payload(e, "yukikaze", m) :
         e \in EventKinds, m \in {None} \cup {Some(raw) : raw \in RawMetadatas}}
    \cup {MalformedPayload}

\* The entries of the lists of a MediaListCollection response, and the
\* lists: the remote returns one list per status and per custom list, and an
\* entry that is on a custom list is in the list of its status as well.
RemoteEntries ==
    {MediaList(1, 0, MediaTitle(Some(Railgs), None, Some(OshiBracketed))),
     MediaList(2, 0, MediaTitle(Some(Railg), Some(Mu2), None))}

RemoteLists ==
    {list \in UNION {[1..n -> RemoteEntries] : n \in 0..MaxListLen} :
         \A j, k \in 1..Len(list) : list[j] = list[k] => j = k}

\* The responses get_watching_list is called with: up to MaxListLen lists.
RemoteCollections == UNION {[1..n -> RemoteLists] : n \in 0..MaxListLen}

\* The calls of the model, before they are made.
Calls ==
    {[fn |-> "is_actionable", pc |-> "called",
      input |-> [webhook |-> w, multi_season |-> m], result |-> <<>>] :
         w \in ClassifierWebhooks, m \in BOOLEAN}
    \cup {[fn |-> "find_match", pc |-> "called",
           input |-> [entries |-> list, title |-> t], result |-> <<>>] :
              list \in MatchLists, t \in MatchTitles}
    \cup {[fn |-> "title_find_match", pc |-> "called",
           input |-> [media_title |-> entry.media.title,
                      string |-> to_lowercase(chars(t))], result |-> <<>>] :
              entry \in MatchEntries, t \in MatchTitles}
    \cup {[fn |-> "remove_special_surrounding_characters", pc |-> "called",
           input |-> [value |-> v], result |-> <<>>] : v \in TrimStrings}
    \cup {[fn |-> "from_str", pc |-> "called",
           input |-> [payload |-> p], result |-> <<>>] : p \in ParsePayloads}
    \cup {[fn |-> "get_watching_list", pc |-> "called",
           input |-> [lists |-> lists], result |-> <<>>] :
              lists \in RemoteCollections}

\* webhook.is_actionable(multi_season) is evaluated.
call_is_actionable ==
    /\ call.fn = "is_actionable" /\ call.pc = "called"
    /\ call' = [call EXCEPT !.pc = "ended",
                            !.result = is_actionable(call.input.webhook,
                                                     call.input.multi_season)]
    /\ UNCHANGED <<multi_season, plex_user, anilist_client, overrides,
                   remote_progress, req, applied>>

\* media_list_entries.find_match(title) is evaluated.
call_find_match ==
    /\ call.fn = "find_match" /\ call.pc = "called"
    /\ call' = [call EXCEPT !.pc = "ended",
                            !.result = MediaListGroup_find_match(call.input.entries,
                                                                 call.input.title)]
    /\ UNCHANGED <<multi_season, plex_user, anilist_client, overrides,
                   remote_progress, req, applied>>

\* media_list.media.title.find_match(&match_title) is evaluated.
call_title_find_match ==
    /\ call.fn = "title_find_match" /\ call.pc = "called"
    /\ call' = [call EXCEPT !.pc = "ended",
                            !.result = MediaTitle_find_match(call.input.media_title,
                                                             call.input.string)]
    /\ UNCHANGED <<multi_season, plex_user, anilist_client, overrides,
                   remote_progress, req, applied>>

\* remove_special_surrounding_characters(value) is evaluated.
call_remove_special_surrounding_characters ==
    /\ call.fn = "remove_special_surrounding_characters" /\ call.pc = "called"
    /\ call' = [call EXCEPT !.pc = "ended",
                            !.result =
                                remove_special_surrounding_characters(call.input.value)]
    /\ UNCHANGED <<multi_season, plex_user, anilist_client, overrides,
                   remote_progress, req, applied>>

\* serde_json::from_str::<Webhook>(payload) is evaluated.
call_from_str ==
    /\ call.fn = "from_str" /\ call.pc = "called"
    /\ call' = [call EXCEPT !.pc = "ended",
                            !.result = parse_webhook(call.input.payload)]
    /\ UNCHANGED <<multi_season, plex_user, anilist_client, overrides,
                   remote_progress, req, applied>>

\* get_watching_list collects the lists of a parsed response.
call_get_watching_list ==
    /\ call.fn = "get_watching_list" /\ call.pc = "called"
    /\ call' = [call EXCEPT !.pc = "ended",
                            !.result = get_watching_list(call.input.lists)]
    /\ UNCHANGED <<multi_season, plex_user, anilist_client, overrides,
                   remote_progress, req, applied>>

\* ------------------------------------------------------------ specification

Init ==
    /\ multi_season \in BOOLEAN
    /\ plex_user \in {None, Some("yukikaze")}
    /\ anilist_client \in {None, Some("client")}
    /\ overrides = {}
    /\ remote_progress = [id \in ListIds |-> 0]
    /\ req = [r \in Requests |-> IdleRequest]
    /\ applied = {}
    /\ call = NoCall

\* The steps of request r.
request_step(r) ==
    \/ \E payload \in Payloads : scrobble(r, payload)
    \/ \E ok \in BOOLEAN : watching_list_response(r, ok)
    \/ lookup_override_by_title(r)
    \/ lookup_override_by_id(r)
    \/ \E reply \in UpdateReplies : update_response(r, reply)

\* An administrative edit of an override.
admin_step == \E id \in OverrideIds, data \in OverrideRequests : anime_override(id, data)

\* Scrobbles are handled one after another; overrides are edited at any time.
Next == request_step("r1") \/ admin_step

Spec == Init /\ [][Next]_vars

\* One function is called with one input of the model; "ended" is a call that
\* returned or panicked.
InitCalls ==
    /\ multi_season = FALSE
    /\ plex_user = None
    /\ anilist_client = None
    /\ overrides = {}
    /\ remote_progress = [id \in ListIds |-> 0]
    /\ req = [r \in Requests |-> IdleRequest]
    /\ applied = {}
    /\ call \in Calls

NextCalls ==
    \/ call_is_actionable
    \/ call_find_match
    \/ call_title_find_match
    \/ call_remove_special_surrounding_characters
    \/ call_from_str
    \/ call_get_watching_list

SpecCalls == InitCalls /\ [][NextCalls]_vars

\* Administrative edits of the overrides, one after another, from an empty
\* table.
InitStore ==
    /\ multi_season = FALSE
    /\ plex_user = None
    /\ anilist_client = None
    /\ overrides = {}
    /\ remote_progress = [id \in ListIds |-> 0]
    /\ req = [r \in Requests |-> IdleRequest]
    /\ applied = {}
    /\ call = NoCall

NextStore == \E id \in OverrideIds, data \in StoreRequests : anime_override_recorded(id, data)

SpecStore == InitStore /\ [][NextStore]_vars

\* The events of the requests that are handled at the same time: scrobbles
\* of the episodes of one show by one account.
ConcurrentPayloads ==
    {Payload("media.scrobble", "yukikaze", Some(Metadata("episode", Railg, 1, n))) :
         n \in 1..MaxEpisode}

\* Rocket handles every request in a task of its own: the tasks of two
\* requests interleave at each await of scrobble().
InitConcurrent ==
    /\ multi_season = FALSE
    /\ plex_user = None
    /\ anilist_client = Some("client")
    /\ overrides = {}
    /\ remote_progress = [id \in ListIds |-> 0]
    /\ req = [r \in Requests |-> IdleRequest]
    /\ applied = {}
    /\ call = NoCall

\* The steps of request r among the concurrent requests.
concurrent_step(r) ==
    \/ \E payload \in ConcurrentPayloads : scrobble(r, payload)
    \/ \E ok \in BOOLEAN : watching_list_response(r, ok)
    \/ lookup_override_by_title(r)
    \/ lookup_override_by_id(r)
    \/ \E reply \in UpdateReplies : update_response(r, reply)

NextConcurrent == \E r \in Requests : concurrent_step(r)

SpecConcurrent == InitConcurrent /\ [][NextConcurrent]_vars

\* The events of the requests whose two lookups are followed: scrobbles of
\* the episodes of a show that the fuzzy match resolves to an entry whose
\* override can be edited.
SnapshotPayloads ==
    {Payload("media.scrobble", "yukikaze", Some(Metadata("episode", Oshi, 1, n))) :
         n \in 1..MaxEpisode}

\* Scrobbles handled one after another while overrides are edited at any
\* await of the handler; call keeps the last lookup by title.
InitSnapshot ==
    /\ multi_season = FALSE
    /\ plex_user = None
    /\ anilist_client = Some("client")
    /\ overrides = {}
    /\ remote_progress = [id \in ListIds |-> 0]
    /\ req = [r \in Requests |-> IdleRequest]
    /\ applied = {}
    /\ call = NoCall

\* The steps of request r with its lookup by title kept.
snapshot_step(r) ==
    \/ \E payload \in SnapshotPayloads : scrobble(r, payload)
    \/ \E ok \in BOOLEAN : watching_list_response(r, ok)
    \/ lookup_override_by_title_recorded(r)
    \/ lookup_override_by_id(r)
    \/ \E reply \in UpdateReplies : update_response(r, reply)

NextSnapshot == snapshot_step("r1") \/ admin_step

SpecSnapshot == InitSnapshot /\ [][NextSnapshot]_vars

\* ------------------------------------------------------------------ claims

\* The metadata of the event of a request.
event_metadata(rec) == unwrap(unwrap(rec.webhook).metadata)

\* The request was resolved to an entry and the comparison of line 167 was
\* made: it awaits the update, or it returned "OK" after a fetched list.
decided(rec) ==
    \/ rec.pc = "update"
    \/ rec.pc = "done" /\ rec.outcome = "OK" /\ rec.fetch_result = "Ok"

\* The episode number of the event plus the offset it was handled with.
effective_episode(rec) == event_metadata(rec).episode_number + rec.episode_offset

\* The entry has a title variant equal to the title after lower-casing.
has_exact_variant(entry, title) ==
    LET titles == available_titles(entry.media.title)
    IN  \E k \in 1..Len(titles) : titles[k] = to_lowercase(chars(title))

\* C1: for an event resolved to entry e with offset o, one update request is
\* issued exactly when episode + o = e.progress + 1; it carries e.id and
\* e.progress + 1; a request that is not so resolved issues none.
C1_UpdateIffNextEpisode ==
    \A r \in Requests :
        LET rec == req[r]
        IN  IF decided(rec)
            THEN LET e == unwrap(rec.matched_media_list)
                 IN  /\ (rec.update_requests # <<>>)
                            <=> (effective_episode(rec) = e.progress + 1)
                     /\ rec.update_requests # <<>> =>
                            rec.update_requests =
                                <<[id |-> e.id, progress |-> e.progress + 1]>>
            ELSE rec.update_requests = <<>>

\* C1 happens: episode 2 with offset -1 meets progress 0 and the update of
\* the entry to progress 1 is issued.
C1_Witness ==
    \E r \in Requests :
        /\ req[r].pc = "update"
        /\ req[r].episode_offset = -1
        /\ event_metadata(req[r]).episode_number = 2
        /\ req[r].update_requests = <<[id |-> 1, progress |-> 1]>>

\* C2: when scrobbles are handled one after another, no update request is
\* issued for an event whose update (its entry, its effective episode as the
\* new progress) the remote has already saved.
C2_ReplayNeverUpdatesAgain ==
    \A r \in Requests :
        req[r].pc = "update" =>
            [id |-> unwrap(req[r].matched_media_list).id,
             progress |-> effective_episode(req[r])] \notin applied

\* C2 happens: an event is handled after the remote saved the update that
\* raised its entry to its effective episode, and it is skipped.
C2_Witness ==
    \E r \in Requests :
        /\ req[r].pc = "done"
        /\ decided(req[r])
        /\ req[r].update_requests = <<>>
        /\ unwrap(req[r].matched_media_list).progress = effective_episode(req[r])
        /\ [id |-> unwrap(req[r].matched_media_list).id,
            progress |-> effective_episode(req[r])] \in applied

C4_NoMatchBelowMinimum ==
    \A r \in Requests :
        (req[r].title_lookups = 1 /\ req[r].matcher_calls = 1) =>
            LET entries == req[r].media_list_entries
                title == to_lowercase(chars(event_metadata(req[r]).title))
                score(entry) == MediaTitle_find_match(entry.media.title, title)
                reaches(entry) == /\ score(entry).status = "ok"
                                  /\ score(entry).confidence >= MINIMUM_CONFIDENCE
            IN  /\ (\A k \in 1..Len(entries) : ~reaches(entries[k])) =>
                       /\ req[r].pc = "done"
                       /\ req[r].outcome = "NO OP"
                       /\ is_none(req[r].matched_media_list)
                       /\ req[r].update_requests = <<>>
                /\ is_some(req[r].matched_media_list) =>
                       reaches(unwrap(req[r].matched_media_list))

\* C5: when an entry of the list has a variant equal to the lower-cased
\* title, find_match returns an entry that has such a variant.
C5_ExactMatchReturned ==
    (/\ call.fn = "find_match"
     /\ call.pc = "ended"
     /\ \E k \in 1..Len(call.input.entries) :
            has_exact_variant(call.input.entries[k], call.input.title)) =>
        /\ call.result.status = "ok"
        /\ is_some(call.result.matched)
        /\ has_exact_variant(unwrap(call.result.matched), call.input.title)

\* C6: the classification follows the rule table, in its order, for every
\* event, media type, season and mode: NonScrobbleEvent for another event
\* (with or without metadata), else NoMetadata without metadata, else
\* IncorrectType for a non-episode, else IncorrectSeason when the season is
\* not 1 (multi-season off) or below 1 (multi-season on), else Actionable.
C6_ClassifierRuleTable ==
    (call.fn = "is_actionable" /\ call.pc = "ended") =>
        LET webhook == call.input.webhook
            scrobble_event == webhook.event = "media.scrobble"
            present == is_some(webhook.metadata)
            episode == present /\ unwrap(webhook.metadata).media_type = "episode"
            season == unwrap(webhook.metadata).season_number
            gate == IF call.input.multi_season THEN season >= 1 ELSE season = 1
        IN  /\ ~scrobble_event => call.result = "NonScrobbleEvent"
            /\ (scrobble_event /\ ~present) => call.result = "NoMetadata"
            /\ (scrobble_event /\ present /\ ~episode) => call.result = "IncorrectType"
            /\ (scrobble_event /\ episode /\ ~gate) => call.result = "IncorrectSeason"
            /\ (scrobble_event /\ episode /\ gate) => call.result = "Actionable"

\* C6 happens: a second-season episode scrobble is classified Actionable in
\* multi-season mode.
C6_Witness ==
    /\ call.fn = "is_actionable"
    /\ call.pc = "ended"
    /\ call.input.multi_season
    /\ is_some(call.input.webhook.metadata)
    /\ unwrap(call.input.webhook.metadata).season_number = 2
    /\ call.result = "Actionable"

\* C7: a request whose event has season number 0 is never classified
\* Actionable, in either mode; it ends without a fetch of the watch list and
\* without an update request.
C7_SpecialsNeverActionable ==
    \A r \in Requests :
        (/\ is_some(req[r].webhook)
         /\ is_some(unwrap(req[r].webhook).metadata)
         /\ event_metadata(req[r]).season_number = 0) =>
            /\ req[r].state # "Actionable"
            /\ req[r].pc = "done"
            /\ req[r].fetches = 0
            /\ req[r].update_requests = <<>>

\* C7 happens: in multi-season mode an episode scrobble of season 0 is
\* rejected as IncorrectSeason.
C7_Witness ==
    \E r \in Requests :
        /\ multi_season
        /\ req[r].pc = "done"
        /\ req[r].state = "IncorrectSeason"
        /\ unwrap(req[r].webhook).event = "media.scrobble"
        /\ event_metadata(req[r]).media_type = "episode"
        /\ event_metadata(req[r]).season_number = 0

\* The four dispositions that are not Actionable.
Rejections == {"NoMetadata", "NonScrobbleEvent", "IncorrectType", "IncorrectSeason"}

\* A request that made no fetch, no lookup of an override and no update.
no_remote_or_store_access(rec) ==
    /\ rec.fetches = 0
    /\ rec.title_lookups = 0
    /\ rec.id_lookups = 0
    /\ rec.update_requests = <<>>

\* C8 as stated: every event that is not Actionable ends with "NO OP" and
\* without a fetch, a lookup of an override or an update request.
C8_RejectionsEndNoOp ==
    \A r \in Requests :
        req[r].state \in Rejections =>
            /\ req[r].pc = "done"
            /\ req[r].outcome = "NO OP"
            /\ no_remote_or_store_access(req[r])

\* C8 as amended: NonScrobbleEvent, IncorrectType and IncorrectSeason end
\* with "NO OP" and NoMetadata ends with "ERROR"; none of the four makes a
\* fetch, a lookup of an override or an update request.
C8_RejectionsEndNoOpOrError ==
    \A r \in Requests :
        req[r].state \in Rejections =>
            /\ req[r].pc = "done"
            /\ req[r].outcome = IF req[r].state = "NoMetadata" THEN "ERROR" ELSE "NO OP"
            /\ no_remote_or_store_access(req[r])

\* C8 happens: a scrobble without metadata has ended with "ERROR".
C8_Witness ==
    \E r \in Requests :
        /\ req[r].pc = "done"
        /\ req[r].state = "NoMetadata"
        /\ req[r].outcome = "ERROR"
        /\ no_remote_or_store_access(req[r])

\* The update of a resolved request was skipped because the effective
\* episode is not the progress of its entry plus one.
skipped(rec) ==
    /\ is_some(rec.matched_media_list)
    /\ rec.update_requests = <<>>
    /\ effective_episode(rec) # unwrap(rec.matched_media_list).progress + 1

\* C9 as stated: a request that ends with "OK" issued an update that the
\* remote confirmed, or was resolved and skipped; its fetch did not fail.
C9_OkMeansConfirmedOrSkipped ==
    \A r \in Requests :
        (req[r].pc = "done" /\ req[r].outcome = "OK") =>
            /\ req[r].fetch_result # "Err"
            /\ \/ Len(req[r].update_requests) = 1 /\ req[r].update_result = "Ok(true)"
               \/ skipped(req[r])

\* C9 as amended: a request that ends with "OK" was Actionable, passed the
\* user restriction and made one fetch; either the fetch failed and nothing
\* else was done, or the event was resolved and skipped, or one update
\* request was issued, whether the remote confirmed it, returned another
\* progress or the call failed.
C9_OkMeansFetchedThenAnything ==
    \A r \in Requests :
        (req[r].pc = "done" /\ req[r].outcome = "OK") =>
            /\ req[r].state = "Actionable"
            /\ is_some(plex_user) => unwrap(plex_user) = unwrap(req[r].webhook).account.name
            /\ is_some(anilist_client)
            /\ req[r].fetches = 1
            /\ \/ /\ req[r].fetch_result = "Err"
                  /\ req[r].title_lookups = 0
                  /\ req[r].update_requests = <<>>
               \/ /\ req[r].fetch_result = "Ok"
                  /\ skipped(req[r])
               \/ /\ req[r].fetch_result = "Ok"
                  /\ is_some(req[r].matched_media_list)
                  /\ Len(req[r].update_requests) = 1
                  /\ req[r].update_result \in {"Ok(true)", "Ok(false)", "Err"}

\* C9 happens: a request has ended with "OK" although the remote returned
\* another progress than the one requested.
C9_Witness ==
    \E r \in Requests :
        /\ req[r].pc = "done"
        /\ req[r].outcome = "OK"
        /\ Len(req[r].update_requests) = 1
        /\ req[r].update_result = "Ok(false)"

stored(rows, id) == {row \in rows : row.id = id}

stored_title(rows, id) ==
    IF stored(rows, id) = {} THEN None ELSE (CHOOSE row \in stored(rows, id) : TRUE).title

stored_offset(rows, id) ==
    IF stored(rows, id) = {} THEN None
    ELSE (CHOOSE row \in stored(rows, id) : TRUE).episode_offset

\* An administrative edit has been made; call holds it.
edited == call.fn = "anime_override"

\* C11: after any sequence of administrative edits no stored record holds an
\* empty title or an offset of 0, and none has both fields absent; a title of
\* "" and an offset of 0 are stored as absent, and an edit whose two fields
\* are each absent, empty or zero leaves no record for its entry id.
C11_StoredOverridesNormalised ==
    /\ \A row \in overrides :
           /\ row.title # Some(Empty)
           /\ row.episode_offset # Some(0)
           /\ is_some(row.title) \/ is_some(row.episode_offset)
    /\ edited =>
           /\ call.input.data.title = Some(Empty) =>
                  is_none(stored_title(overrides, call.input.id))
           /\ call.input.data.episode_offset = Some(0) =>
                  is_none(stored_offset(overrides, call.input.id))
           /\ (/\ call.input.data.title \in {None, Some(Empty)}
               /\ call.input.data.episode_offset \in {None, Some(0)}) =>
                  stored(overrides, call.input.id) = {}

\* C11 happens: an edit with title "" and offset 0 was made for an id that
\* had a record, and the record is gone.
C11_Witness ==
    /\ edited
    /\ call.input.data = [title |-> Some(Empty), episode_offset |-> Some(0)]
    /\ stored(call.input.rows, call.input.id) # {}
    /\ stored(overrides, call.input.id) = {}

\* C12: the store holds at most one record per entry id and at most one per
\* title; a write for id X with title T replaces any previous record of X and
\* removes any record of another id that held T.
C12_OneRecordPerIdAndTitle ==
    /\ \A a, b \in overrides :
           (a.id = b.id \/ (is_some(a.title) /\ a.title = b.title)) => a = b
    /\ (edited /\ call.input.data.title \notin {None, Some(Empty)}) =>
           /\ Cardinality(stored(overrides, call.input.id)) = 1
           /\ stored_title(overrides, call.input.id) = call.input.data.title
           /\ \A row \in overrides :
                  row.title = call.input.data.title => row.id = call.input.id

\* C12 happens: a write for X with title T was made while X had a record
\* with another title and another id held T; one record is left, that of X
\* with T.
C12_Witness ==
    /\ edited
    /\ is_some(call.input.data.title)
    /\ \E old \in call.input.rows :
           old.id = call.input.id /\ is_some(old.title)
           /\ old.title # call.input.data.title
    /\ \E other \in call.input.rows :
           other.id # call.input.id /\ other.title = call.input.data.title
    /\ Cardinality(overrides) = 1
    /\ stored_title(overrides, call.input.id) = call.input.data.title

\* C13 as stated: an edit that leaves a field out changes the other field
\* alone, the stored value of the field left out stays as it was.
C13_OmittedFieldUnchanged ==
    edited =>
        /\ is_none(call.input.data.episode_offset) =>
               stored_offset(overrides, call.input.id)
                   = stored_offset(call.input.rows, call.input.id)
        /\ is_none(call.input.data.title) =>
               stored_title(overrides, call.input.id)
                   = stored_title(call.input.rows, call.input.id)

\* C13: an edit for id X replaces the whole record of X: afterwards the title
\* stored for X is the title of the edit and the offset stored for X is the
\* offset of the edit, "" and 0 counting as absent, so that a field the edit
\* leaves out is cleared.
C13_EditReplacesWholeRecord ==
    edited =>
        /\ stored_title(overrides, call.input.id)
               = IF call.input.data.title = Some(Empty) THEN None
                 ELSE call.input.data.title
        /\ stored_offset(overrides, call.input.id)
               = IF call.input.data.episode_offset = Some(0) THEN None
                 ELSE call.input.data.episode_offset

\* C13 happens: an edit with a title and no offset was made for an id that
\* had an offset stored, and the record now has the title and no offset.
C13_Witness ==
    /\ edited
    /\ is_some(call.input.data.title)
    /\ call.input.data.title # Some(Empty)
    /\ is_none(call.input.data.episode_offset)
    /\ is_some(stored_offset(call.input.rows, call.input.id))
    /\ stored_title(overrides, call.input.id) = call.input.data.title
    /\ is_none(stored_offset(overrides, call.input.id))

\* Request r takes a step of its handler.
handled(r) == req'[r] # req[r]

\* C14: handling a scrobble event, whatever its outcome, leaves the override
\* store unchanged: no step of a request creates, updates or deletes a record.
C14_ScrobbleLeavesStoreUnchanged ==
    [][(\E r \in Requests : handled(r)) => overrides' = overrides]_vars

\* C14 happens: a request looked an override up by title and by id in a
\* store that holds records, and has ended.
C14_Witness ==
    \E r \in Requests :
        /\ req[r].pc = "done"
        /\ req[r].title_lookups = 1
        /\ req[r].id_lookups = 1
        /\ overrides # {}

\* C15 as stated: the handler unwraps the metadata of the event only when the
\* classifier returned Actionable.
C15_UnwrappedOnlyWhenActionable ==
    \A r \in Requests : req[r].metadata_unwrapped => req[r].state = "Actionable"

\* C15: the handler unwraps the metadata only of an event that has metadata:
\* of an Actionable event once the watch list is fetched, and of an event
\* classified IncorrectType or IncorrectSeason; never when the payload was
\* not parsed or the classifier returned NoMetadata or NonScrobbleEvent.
C15_UnwrappedOnlyWithMetadata ==
    \A r \in Requests :
        req[r].metadata_unwrapped =>
            /\ is_some(req[r].webhook)
            /\ is_some(unwrap(req[r].webhook).metadata)
            /\ req[r].state \in {"Actionable", "IncorrectType", "IncorrectSeason"}
            /\ req[r].state = "Actionable" => req[r].fetch_result = "Ok"

\* C15 happens: an event of a season other than the first was rejected and
\* its metadata was unwrapped for the log line.
C15_Witness ==
    \E r \in Requests :
        /\ req[r].pc = "done"
        /\ req[r].state = "IncorrectSeason"
        /\ req[r].metadata_unwrapped
        /\ req[r].outcome = "NO OP"

\* The offset stored for an entry id, 0 when the entry has no record or its
\* record has no offset.
offset_of(rows, id) ==
    IF is_some(stored_offset(rows, id)) THEN unwrap(stored_offset(rows, id)) ELSE 0

C17_UsernameRestriction ==
    [][\A r \in Requests :
           (/\ req[r].pc \in {"idle", "done"}
            /\ handled(r)
            /\ is_some(plex_user)
            /\ is_some(req'[r].webhook)) =>
               IF unwrap(req'[r].webhook).account.name # unwrap(plex_user)
               THEN req'[r].state = "Actionable" =>
                        /\ req'[r].pc = "done"
                        /\ req'[r].outcome = "NO OP"
                        /\ req'[r].fetches = 0
                        /\ req'[r].update_requests = <<>>
               ELSE \E payload \in Payloads :
                        /\ parse_webhook(payload) = req'[r].webhook
                        /\ req'[r] = scrobble_start(payload, multi_season, None,
                                                    anilist_client)]_vars

\* C17 happens: with the restriction "yukikaze" an event of that account was
\* fetched for, and matched.
C17_Witness ==
    \E r \in Requests :
        /\ plex_user = Some("yukikaze")
        /\ is_some(req[r].webhook)
        /\ unwrap(req[r].webhook).account.name = "yukikaze"
        /\ req[r].fetch_result = "Ok"
        /\ is_some(req[r].matched_media_list)

\* C18: a request makes at most one fetch of the watch list and at most one
\* update request; when the update is not confirmed or fails the request
\* ends without another update request, and the configuration and the
\* override store stay as they are.
C18_OneFetchOneUpdateNoRetry ==
    [][\A r \in Requests :
           /\ req'[r].fetches <= 1
           /\ Len(req'[r].update_requests) <= 1
           /\ (/\ req[r].pc = "update"
               /\ handled(r)
               /\ req'[r].update_result \in {"Ok(false)", "Err"}) =>
                  /\ req'[r].pc = "done"
                  /\ req'[r].update_requests = req[r].update_requests
                  /\ UNCHANGED <<multi_season, plex_user, anilist_client,
                                 overrides>>]_vars

\* C18 happens: the one update of a request came back with another progress
\* and the request ended.
C18_Witness ==
    \E r \in Requests :
        /\ req[r].pc = "done"
        /\ req[r].fetches = 1
        /\ Len(req[r].update_requests) = 1
        /\ req[r].update_result = "Ok(false)"

\* C19: a request whose fetch of the watch list fails issues no update
\* request and writes nothing, and the requests handled at the same time are
\* left as they are.
C19_FailedFetchIsolated ==
    [][\A r \in Requests :
           (/\ req[r].pc = "fetch"
            /\ handled(r)
            /\ req'[r].fetch_result = "Err") =>
               /\ req'[r].pc = "done"
               /\ req'[r].update_requests = <<>>
               /\ req'[r].title_lookups = 0 /\ req'[r].id_lookups = 0
               /\ \A q \in Requests \ {r} : req'[q] = req[q]
               /\ UNCHANGED <<multi_season, plex_user, anilist_client, overrides,
                              remote_progress, applied>>]_vars

\* C19 happens: the fetch of one request has failed and the request has
\* ended, while another request, its list fetched, awaits its update.
C19_Witness ==
    \E r \in Requests, q \in Requests :
        /\ r # q
        /\ req[r].pc = "done"
        /\ req[r].fetch_result = "Err"
        /\ req[r].update_requests = <<>>
        /\ req[q].pc = "update"

\* C20: nothing serialises two requests for the same entry and episode: when
\* one of them awaits its update and the other, which fetched the same
\* progress, decides with the same offset, the other issues the same update
\* request.
C20_SameStaleProgressBothUpdate ==
    [][\A r \in Requests, q \in Requests :
           (/\ r # q
            /\ req[q].pc = "update"
            /\ req[r].pc = "by_id"
            /\ handled(r)
            /\ req[r].webhook = req[q].webhook
            /\ req[r].matched_media_list = req[q].matched_media_list
            /\ req'[r].episode_offset = req[q].episode_offset) =>
               /\ req'[r].pc = "update"
               /\ req'[r].update_requests = req[q].update_requests]_vars

\* C20 happens: two requests for the same episode of the same entry both
\* fetched progress p and both await the update to p + 1.
C20_Witness ==
    /\ req["r1"].pc = "update"
    /\ req["r2"].pc = "update"
    /\ req["r1"].webhook = req["r2"].webhook
    /\ req["r1"].matched_media_list = req["r2"].matched_media_list
    /\ req["r1"].update_requests = req["r2"].update_requests
    /\ Len(req["r1"].update_requests) = 1

\* C21: the two lookups of one resolution see the store as of one point in
\* time: the override that the lookup by entry id finds is the one that the
\* store held for that id when the override was looked up by title.
C21_LookupsSeeOneStore ==
    [][\A r \in Requests :
           (/\ req[r].pc = "by_id"
            /\ handled(r)
            /\ call.fn = "get_override_by_title"
            /\ call.input.request = r) =>
               req'[r].anime_override =
                   get_override_by_id(call.input.rows,
                                      unwrap(req[r].matched_media_list).id)]_vars

\* remove_special_surrounding_characters was called and the call has ended.
trimmed == call.fn = "remove_special_surrounding_characters" /\ call.pc = "ended"

\* The characters of a string that the trimming keeps: from the first
\* character that is alphanumeric or '(' to the last that is alphanumeric or
\* ')'; nothing when there is no such stretch.
kept_characters(value) ==
    LET starts == {k \in 1..Len(value) : is_alphanumeric(value[k]) \/ value[k] = "("}
        ends == {k \in 1..Len(value) : is_alphanumeric(value[k]) \/ value[k] = ")"}
    IN  IF starts = {} \/ ends = {} THEN <<>>
        ELSE SubSeq(value, Min(starts), Max(ends))

\* C22: for every string the trimming returns the string without its leading
\* characters that are neither alphanumeric nor '(' and without its trailing
\* characters that are neither alphanumeric nor ')', whole characters only,
\* and trimming the result again returns the result.
C22_TrimmingIdempotent ==
    trimmed =>
        /\ call.result.status = "ok"
        /\ call.result.value = kept_characters(call.input.value)
        /\ remove_special_surrounding_characters(call.result.value)
               = [status |-> "ok", value |-> call.result.value]

\* C23: a payload whose Metadata object is missing, or lacks one of type,
\* grandparentTitle, parentIndex and index, parses with metadata absent, and
\* is classified NoMetadata when its event is media.scrobble and
\* NonScrobbleEvent otherwise, in both season modes.
C23_IncompleteMetadataParsesAsAbsent ==
    (/\ call.fn = "from_str"
     /\ call.pc = "ended"
     /\ call.input.payload.wellformed
     /\ \/ is_none(call.input.payload.Metadata)
        \/ \E field \in {"type", "grandparentTitle", "parentIndex", "index"} :
               is_none(unwrap(call.input.payload.Metadata)[field])) =>
        /\ is_some(call.result)
        /\ is_none(unwrap(call.result).metadata)
        /\ unwrap(call.result).event = call.input.payload.event
        /\ \A m \in BOOLEAN :
               is_actionable(unwrap(call.result), m) =
                   IF call.input.payload.event = "media.scrobble"
                   THEN "NoMetadata" ELSE "NonScrobbleEvent"

\* C23 happens: a media.scrobble payload whose Metadata has a type and a
\* grandparentTitle, and neither parentIndex nor index, has been parsed.
C23_Witness ==
    /\ call.fn = "from_str"
    /\ call.pc = "ended"
    /\ call.input.payload.event = "media.scrobble"
    /\ is_some(call.input.payload.Metadata)
    /\ is_some(unwrap(call.input.payload.Metadata).type)
    /\ is_some(unwrap(call.input.payload.Metadata).grandparentTitle)
    /\ is_none(unwrap(call.input.payload.Metadata).parentIndex)
    /\ is_none(unwrap(call.input.payload.Metadata).index)
    /\ is_some(call.result)
    /\ is_none(unwrap(call.result).metadata)

\* get_watching_list was called and the call has ended.
collected == call.fn = "get_watching_list" /\ call.pc = "ended"

\* The ids of a list of entries are pairwise different.
unique_ids(entries) ==
    \A j, k \in 1..Len(entries) : entries[j].id = entries[k].id => j = k

\* The number of entries of the first n lists.
RECURSIVE entries_before(_, _)
entries_before(lists, n) ==
    IF n = 0 THEN 0 ELSE entries_before(lists, n - 1) + Len(lists[n])

\* C24 as stated: the list that get_watching_list returns has every entry id
\* at most once.
C24_FlattenedIdsUnique == collected => unique_ids(call.result)

\* C24: get_watching_list returns the entries of the lists of the response
\* in order, all of them and nothing else; the result has every id at most
\* once exactly when no id is in two lists or twice in one, and find_id
\* returns the first entry of the result with the id, none when there is
\* none.
C24_FlattenedInOrder ==
    collected =>
        LET lists == call.input.lists
            result == call.result
        IN  /\ Len(result) = entries_before(lists, Len(lists))
            /\ \A n \in 1..Len(lists) : \A j \in 1..Len(lists[n]) :
                   result[entries_before(lists, n - 1) + j] = lists[n][j]
            /\ unique_ids(result) <=>
                   \A n, m \in 1..Len(lists) :
                       \A j \in 1..Len(lists[n]), k \in 1..Len(lists[m]) :
                           lists[n][j].id = lists[m][k].id => (n = m /\ j = k)
            /\ \A id \in ListIds :
                   LET hits == {k \in 1..Len(result) : result[k].id = id}
                   IN  find_id(result, id) =
                           IF hits = {} THEN None ELSE Some(result[Min(hits)])

\* C24 happens: the response has an entry in two lists and the collected
\* list has its id twice.
C24_Witness ==
    /\ collected
    /\ Len(call.input.lists) = 2
    /\ \E j \in 1..Len(call.input.lists[1]), k \in 1..Len(call.input.lists[2]) :
           call.input.lists[1][j] = call.input.lists[2][k]
    /\ ~unique_ids(call.result)

\* MediaTitle::find_match was called and the call has ended.
scored == call.fn = "title_find_match" /\ call.pc = "ended"

\* A string after the decoration stripping and the trimming of the fallback
\* pass; the empty string when the trimming does not return.
massaged(string) == remove_special_surrounding_characters(remove_regexes(string)).value

\* C25: the score of an entry is returned and lies in [0, 1]: 1.0 when a
\* variant equals the query; else the best direct similarity when that is at
\* least 0.8; else the maximum of the best direct similarity and, over the
\* variants, max(0, similarity of the massaged strings - 0.05); and 0.0 for an
\* entry without variants.
C25_ScoreRules ==
    scored =>
        LET titles == available_titles(call.input.media_title)
            string == call.input.string
            exact == \E k \in 1..Len(titles) : titles[k] = string
            direct == Max({0} \cup {normalized_levenshtein(string, titles[k]) :
                                        k \in 1..Len(titles)})
            fallback ==
                Max({0} \cup {Max({0, normalized_levenshtein(massaged(string),
                                                             massaged(titles[k]))
                                          - FALLBACK_PENALTY}) : k \in 1..Len(titles)})
            confidence == call.result.confidence
        IN  /\ call.result.status = "ok"
            /\ confidence >= 0 /\ confidence <= ScoreScale
            /\ exact => confidence = ScoreScale
            /\ (~exact /\ direct >= MINIMUM_CONFIDENCE) => confidence = direct
            /\ (~exact /\ direct < MINIMUM_CONFIDENCE) =>
                   confidence = Max({direct, fallback})
            /\ Len(titles) = 0 => confidence = 0

\* The entries of a list that have a variant equal to the lower-cased title.
exact_entries(entries, title) ==
    {k \in 1..Len(entries) : has_exact_variant(entries[k], title)}

\* C26: when several entries of the list have a variant equal to the query,
\* find_match returns the first of them in list order; the entries after it
\* are not scored, so that none of them can keep the call from returning.
C26_FirstExactWins ==
    (/\ call.fn = "find_match"
     /\ call.pc = "ended"
     /\ Cardinality(exact_entries(call.input.entries, call.input.title)) >= 2) =>
        /\ call.result.status = "ok"
        /\ call.result.matched =
               Some(call.input.entries[
                        Min(exact_entries(call.input.entries, call.input.title))])

\* C28: for every string, the empty string and the strings without an
\* alphanumeric character included, the trimming returns, and returns a
\* substring of the string; the title scoring and the title matching that
\* call it return as well.
C28_TrimmingTotal ==
    /\ trimmed =>
           /\ call.result.status = "ok"
           /\ \E j \in 1..(Len(call.input.value) + 1), k \in 0..Len(call.input.value) :
                  call.result.value = SubSeq(call.input.value, j, k)
    /\ (scored \/ (call.fn = "find_match" /\ call.pc = "ended")) =>
           call.result.status = "ok"

\* C27: under any interleaving of concurrently handled scrobbles the remote
\* progress of an entry never decreases.
C27_ProgressNeverDecreases ==
    [][\A id \in ListIds : remote_progress'[id] >= remote_progress[id]]_vars

C30_OtherOffsetsUnchanged ==
    edited =>
        \A id \in OverrideIds \ {call.input.id} :
            stored_offset(overrides, id) = stored_offset(call.input.rows, id)

====
